---- MODULE Spec2Model ----
(***************************************************************************)
(* A model of three pieces of draft-js-mod:                                *)
(*   - DraftPasteProcessor.processText (plain text lines -> blocks),       *)
(*   - DraftEditorBlock.shouldComponentUpdate,                             *)
(*   - DraftEditorBlock.componentDidMount (scroll the cursor into view).   *)
(* Each piece has its own specification (SpecPaste, SpecUpdate, SpecMount) *)
(* over the same variables; a specification leaves the variables of the    *)
(* other pieces at their idle values.                                      *)
(***************************************************************************)
EXTENDS Integers, Sequences, FiniteSets, TLC

VARIABLES
  pc,                          \* which piece ran last: "ready" before the call, then "processText", "shouldComponentUpdate" or "componentDidMount"
  experimentalTreeDataSupport, \* DraftFeatureFlags.draft_tree_data_support, read once at module load
  textBlocks,                  \* the array passed to processText
  character,                   \* the CharacterMetadata passed to processText
  type,                        \* the DraftBlockType passed to processText
  seenKeys,                    \* keys handed out by generateRandomKey so far
  result,                      \* the array processText returned
  props,                       \* this.props of the DraftEditorBlock
  nextProps,                   \* the argument of shouldComponentUpdate
  shouldUpdate,                \* what shouldComponentUpdate returned
  dom,                         \* what the layout reads of componentDidMount return
  scrollCall                   \* the scroll call componentDidMount made, or NoCall

vars == <<pc, experimentalTreeDataSupport, textBlocks, character, type, seenKeys,
          result, props, nextProps, shouldUpdate, dom, scrollCall>>

pasteVars == <<experimentalTreeDataSupport, textBlocks, character, type, seenKeys, result>>
updateVars == <<nextProps, shouldUpdate>>
mountVars == <<dom, scrollCall>>

----------------------------------------------------------------------------
(* Bounds *)

MaxLines == 3
NumBlocks == 3
NumKeys == 2
MaxPos == 2

----------------------------------------------------------------------------
(* DraftPasteProcessor.processText *)

RECURSIVE SeqsUpTo(_, _)
SeqsUpTo(S, n) ==
  IF n = 0 THEN {<<>>}
  ELSE LET shorter == SeqsUpTo(S, n - 1)
       IN shorter \cup {Append(s, x) : s \in {t \in shorter : Len(t) = n - 1}, x \in S}

\* The lines a paste can hold: ordinary characters and "\r", the block
\* delimiter that sanitizeDraftText removes.
Lines == {<<>>, <<"a">>, <<"\r">>, <<"\r", "\r">>, <<"a", "\r", "b">>}
TextBlockArrays == SeqsUpTo(Lines, MaxLines)
Characters == {"EMPTY", "BOLD"}
BlockTypes == {"unstyled", "code-block"}

\* The keys generateRandomKey can draw: as many as the longest input needs.
RandomKeys == {"k" \o ToString(i) : i \in 1..MaxLines}

\* The value of an unset sibling link of a ContentBlockNode.
Null == "null"

\* sanitizeDraftText(input): input.replace(/\r/g, '')
RECURSIVE sanitizeDraftText(_)
sanitizeDraftText(input) ==
  IF input = <<>> THEN <<>>
  ELSE IF Head(input) = "\r" THEN sanitizeDraftText(Tail(input))
       ELSE <<Head(input)>> \o sanitizeDraftText(Tail(input))

\* List(Repeat(value, times))
Repeat(value, times) == [i \in 1..times |-> value]

\* new ContentBlockRecord(config): the record's defaults, overridden by config.
\* A ContentBlock has no sibling fields, a ContentBlockNode has them, null by default.
ContentBlockRecord(key, blockType, text, characterList, prevSibling) ==
  [key |-> key, type |-> blockType, text |-> text, characterList |-> characterList,
   prevSibling |-> prevSibling, nextSibling |-> Null]

\* The callback keeping the raw line as the block's text.
ReduceCallback_RawText(acc, textLine, index, key, chr, blockType, treeSupport) ==
  LET line == sanitizeDraftText(textLine)
      characterList == Repeat(chr, Len(line))
      linked == treeSupport /\ index # 0
      prevSiblingIndex == index - 1
      acc1 == IF linked
              THEN [acc EXCEPT ![prevSiblingIndex + 1].nextSibling = key]
              ELSE acc
      prevSibling == IF linked THEN acc1[prevSiblingIndex + 1].key ELSE Null
  IN Append(acc1, ContentBlockRecord(key, blockType, textLine, characterList, prevSibling))

\* The callback sizing the characterList by the raw line.
ReduceCallback_RawLength(acc, textLine, index, key, chr, blockType, treeSupport) ==
  LET line == sanitizeDraftText(textLine)
      characterList == Repeat(chr, Len(textLine))
      linked == treeSupport /\ index # 0
      prevSiblingIndex == index - 1
      acc1 == IF linked
              THEN [acc EXCEPT ![prevSiblingIndex + 1].nextSibling = key]
              ELSE acc
      prevSibling == IF linked THEN acc1[prevSiblingIndex + 1].key ELSE Null
  IN Append(acc1, ContentBlockRecord(key, blockType, line, characterList, prevSibling))

\* The callback linking the new block back without updating the previous block.
ReduceCallback_NoNextSibling(acc, textLine, index, key, chr, blockType, treeSupport) ==
  LET line == sanitizeDraftText(textLine)
      characterList == Repeat(chr, Len(line))
      linked == treeSupport /\ index # 0
      prevSiblingIndex == index - 1
      prevSibling == IF linked THEN acc[prevSiblingIndex + 1].key ELSE Null
  IN Append(acc, ContentBlockRecord(key, blockType, line, characterList, prevSibling))

\* One call of the reduce callback: acc is the accumulator, textLine the
\* element, index its 0-based position, key what generateRandomKey returned.
ReduceCallback(acc, textLine, index, key, chr, blockType, treeSupport) ==
  LET line == sanitizeDraftText(textLine)
      characterList == Repeat(chr, Len(line))
      linked == treeSupport /\ index # 0
      prevSiblingIndex == index - 1
      acc1 == IF linked
              THEN [acc EXCEPT ![prevSiblingIndex + 1].nextSibling = key]
              ELSE acc
      prevSibling == IF linked THEN acc1[prevSiblingIndex + 1].key ELSE Null
  IN Append(acc1, ContentBlockRecord(key, blockType, line, characterList, prevSibling))

\* textBlocks.reduce(callback, []) with the keys generateRandomKey returns, in call order.
RECURSIVE Reduce(_, _, _, _, _, _)
Reduce(lines, n, keys, chr, blockType, treeSupport) ==
  IF n = 0 THEN <<>>
  ELSE ReduceCallback(Reduce(lines, n - 1, keys, chr, blockType, treeSupport),
                      lines[n], n - 1, keys[n], chr, blockType, treeSupport)

\* What n successive calls of generateRandomKey can return: n distinct keys,
\* none of them seen before.
KeyDraws(seen, n) ==
  {ks \in [1..n -> RandomKeys \ seen] : \A i, j \in 1..n : i # j => ks[i] # ks[j]}

processText ==
  /\ pc = "ready"
  /\ textBlocks \in TextBlockArrays
  /\ \E keys \in KeyDraws(seenKeys, Len(textBlocks)) :
       /\ result' = Reduce(textBlocks, Len(textBlocks), keys, character, type,
                           experimentalTreeDataSupport)
       /\ seenKeys' = seenKeys \cup {keys[i] : i \in 1..Len(textBlocks)}
  /\ pc' = "processText"
  /\ UNCHANGED <<experimentalTreeDataSupport, textBlocks, character, type>>
  /\ UNCHANGED <<props, updateVars, mountVars>>

----------------------------------------------------------------------------
(* DraftEditorBlock *)

SCROLL_BUFFER == 10

\* Block objects are compared by reference; two of them can be versions of the
\* same block and carry the same key.
BlockRefs == 1..NumBlocks
getKey(block) == (block + 1) \div 2

TreeRefs == {"tree1", "tree2"}
Directions == {"LTR", "RTL"}
SelectionKeys == 1..NumKeys

Selections ==
  [anchorKey : SelectionKeys, focusKey : SelectionKeys,
   isBackward : BOOLEAN, hasFocus : BOOLEAN]

PropsOf(selections) ==
  [block : BlockRefs, tree : TreeRefs, direction : Directions,
   selection : selections, forceSelection : BOOLEAN]

\* SelectionState.getEndKey(): the anchor key of a backward selection, else the focus key.
getEndKey(selection) ==
  IF selection.isBackward THEN selection.anchorKey ELSE selection.focusKey

isBlockOnSelectionEdge(selection, key) ==
  selection.anchorKey = key \/ selection.focusKey = key

\* shouldComponentUpdate that also re-renders on any change of selection.
ShouldComponentUpdateOf_AnySelection(this, next) ==
  \/ this.block # next.block
  \/ this.tree # next.tree
  \/ this.direction # next.direction
  \/ this.selection # next.selection
  \/ (isBlockOnSelectionEdge(next.selection, getKey(next.block)) /\ next.forceSelection)

\* shouldComponentUpdate(nextProps), with this.props as first argument.
ShouldComponentUpdateOf(this, next) ==
  \/ this.block # next.block
  \/ this.tree # next.tree
  \/ this.direction # next.direction
  \/ (isBlockOnSelectionEdge(next.selection, getKey(next.block)) /\ next.forceSelection)

shouldComponentUpdate ==
  /\ pc = "ready"
  /\ \E np \in PropsOf(Selections) :
       /\ nextProps' = np
       /\ shouldUpdate' = ShouldComponentUpdateOf(props, np)
  /\ pc' = "shouldComponentUpdate"
  /\ UNCHANGED <<props, pasteVars, mountVars>>

\* The scroll calls componentDidMount can make.
NoCall == [fn |-> "none", args |-> <<>>]
WindowScrollTo(x, y) == [fn |-> "window.scrollTo", args |-> <<x, y>>]
ScrollSetTop(top) == [fn |-> "Scroll.setTop", args |-> <<top>>]

\* What the layout reads return: the block's and the editor's element position,
\* whether Style.getScrollParent is the window, the scroll parent's element
\* position (read when it is not the window), the viewport height and the
\* scroll position of the scroll parent.
Positions == 0..MaxPos
ScrollXs == {0, 7}
Doms ==
  [blockPosition : [y : Positions, height : Positions],
   editorPosition : [y : Positions],
   isScrParentWindow : BOOLEAN,
   elementPosition : [y : Positions, height : Positions],
   viewportHeight : Positions,
   scrollPosition : [x : ScrollXs, y : Positions]]

\* scrollParentPosition: the scroll parent's element position, or the viewport
\* at y = 0 when the scroll parent is the window.
ScrollParentPosition(d) ==
  IF ~d.isScrParentWindow THEN d.elementPosition
  ELSE [y |-> 0, height |-> d.viewportHeight]

\* The block and the visible area, relative to the editor's top.
BlockHeight(d) == d.blockPosition.height
BlockTop(d) == d.blockPosition.y - d.editorPosition.y
BlockBottom(d) == BlockTop(d) + BlockHeight(d)
VisTop(d) == ScrollParentPosition(d).y - d.editorPosition.y
VisHeight(d) == ScrollParentPosition(d).height
VisBottom(d) == VisTop(d) + VisHeight(d)
IsBigBlock(d) == BlockHeight(d) >= VisHeight(d)

\* The same with the test for a big block dropped from the second branch.
CorrectScrollTop_BottomForBig(d) ==
  LET scrollDeltaTop == VisTop(d) - BlockTop(d)
      scrollDeltaBottom == VisBottom(d) - BlockBottom(d)
  IN IF VisTop(d) > BlockTop(d) \/ (IsBigBlock(d) /\ BlockTop(d) > VisBottom(d))
     THEN <<d.scrollPosition.y - SCROLL_BUFFER - scrollDeltaTop>>
     ELSE IF BlockBottom(d) > VisBottom(d)
          THEN <<d.scrollPosition.y + SCROLL_BUFFER - scrollDeltaBottom>>
          ELSE <<>>

\* correctScrollTop: <<>> while undefined, else <<value>>.
CorrectScrollTop(d) ==
  LET scrollDeltaTop == VisTop(d) - BlockTop(d)
      scrollDeltaBottom == VisBottom(d) - BlockBottom(d)
  IN IF VisTop(d) > BlockTop(d) \/ (IsBigBlock(d) /\ BlockTop(d) > VisBottom(d))
     THEN <<d.scrollPosition.y - SCROLL_BUFFER - scrollDeltaTop>>
     ELSE IF ~IsBigBlock(d) /\ BlockBottom(d) > VisBottom(d)
          THEN <<d.scrollPosition.y + SCROLL_BUFFER - scrollDeltaBottom>>
          ELSE <<>>

\* componentDidMount(): the scroll call it makes.
ComponentDidMountOf(this, d) ==
  LET selection == this.selection
      endKey == getEndKey(selection)
  IN IF ~selection.hasFocus \/ endKey # getKey(this.block)
     THEN NoCall
     ELSE LET correctScrollTop == CorrectScrollTop(d)
          IN IF correctScrollTop # <<>>
             THEN IF d.isScrParentWindow
                  THEN WindowScrollTo(d.scrollPosition.x, correctScrollTop[1])
                  ELSE ScrollSetTop(correctScrollTop[1])
             ELSE NoCall

componentDidMount ==
  /\ pc = "ready"
  /\ scrollCall' = ComponentDidMountOf(props, dom)
  /\ pc' = "componentDidMount"
  /\ UNCHANGED <<props, dom, pasteVars, updateVars>>

----------------------------------------------------------------------------
(* Specifications *)

IdleSelection == [anchorKey |-> 1, focusKey |-> 1, isBackward |-> FALSE, hasFocus |-> TRUE]
IdleProps ==
  [block |-> 1, tree |-> "tree1", direction |-> "LTR",
   selection |-> IdleSelection, forceSelection |-> FALSE]
IdleDom ==
  [blockPosition |-> [y |-> 0, height |-> 0], editorPosition |-> [y |-> 0],
   isScrParentWindow |-> TRUE, elementPosition |-> [y |-> 0, height |-> 0],
   viewportHeight |-> 0, scrollPosition |-> [x |-> 0, y |-> 0]]

PasteIdle ==
  /\ experimentalTreeDataSupport = FALSE
  /\ textBlocks = <<>>
  /\ character = "EMPTY"
  /\ type = "unstyled"
  /\ seenKeys = {}
  /\ result = <<>>

\* A paste: the module has just been loaded (no key handed out yet) and the
\* caller holds the arguments of processText.
InitPaste ==
  /\ pc = "ready"
  /\ experimentalTreeDataSupport \in BOOLEAN
  /\ textBlocks \in TextBlockArrays
  /\ character \in Characters
  /\ type \in BlockTypes
  /\ seenKeys = {}
  /\ result = <<>>
  /\ props = IdleProps
  /\ nextProps = IdleProps
  /\ shouldUpdate = FALSE
  /\ dom = IdleDom
  /\ scrollCall = NoCall

NextPaste == processText
SpecPaste == InitPaste /\ [][NextPaste]_vars

\* A rendered block about to receive new props. shouldComponentUpdate reads
\* neither isBackward nor hasFocus, so this.props holds one value of each.
InitUpdate ==
  /\ pc = "ready"
  /\ PasteIdle
  /\ props \in PropsOf({s \in Selections : ~s.isBackward /\ s.hasFocus})
  /\ nextProps = props
  /\ shouldUpdate = FALSE
  /\ dom = IdleDom
  /\ scrollCall = NoCall

NextUpdate == shouldComponentUpdate
SpecUpdate == InitUpdate /\ [][NextUpdate]_vars

\* A block that has just been rendered for the first time. Scroll parents that
\* are the window have no element position read, the others no use of the
\* viewport height, so the unread one holds one value.
InitMount ==
  /\ pc = "ready"
  /\ PasteIdle
  /\ props \in {p \in PropsOf(Selections) :
                  p.tree = "tree1" /\ p.direction = "LTR" /\ ~p.forceSelection /\ p.block = 1}
  /\ nextProps = props
  /\ shouldUpdate = FALSE
  /\ dom \in {d \in Doms :
                IF d.isScrParentWindow THEN d.elementPosition = [y |-> 0, height |-> 0]
                ELSE d.viewportHeight = 0}
  /\ scrollCall = NoCall

NextMount == componentDidMount
SpecMount == InitMount /\ [][NextMount]_vars

----------------------------------------------------------------------------
(* Properties *)

Returned == pc = "processText"

\* C1: processText returns exactly one block per input line, in input order:
\* the result is as long as textBlocks (empty for the empty array), the block
\* at i has text sanitizeDraftText(textBlocks[i]) and the given type, and the
\* call leaves the array textBlocks as it was.
C1_OneBlockPerLine ==
  /\ [](Returned =>
          /\ Len(result) = Len(textBlocks)
          /\ \A i \in 1..Len(textBlocks) :
               /\ result[i].text = sanitizeDraftText(textBlocks[i])
               /\ result[i].type = type)
  /\ [][textBlocks' = textBlocks]_vars

C1_Witness ==
  /\ Returned
  /\ Len(result) = 3
  /\ textBlocks[1] = <<"a", "\r", "b">>
  /\ textBlocks[2] = <<>>
  /\ textBlocks[3] = <<"a">>
  /\ type = "code-block"

\* C2: every returned block has a characterList as long as the block's text,
\* the sanitized line and not the raw one, each entry of it the character
\* passed; a line that sanitizes to the empty string has an empty characterList.
C2_CharacterListMatchesText ==
  Returned =>
    \A i \in 1..Len(result) :
      LET block == result[i]
      IN /\ Len(block.characterList) = Len(block.text)
         /\ Len(block.characterList) = Len(sanitizeDraftText(textBlocks[i]))
         /\ \A j \in 1..Len(block.characterList) : block.characterList[j] = character
         /\ sanitizeDraftText(textBlocks[i]) = <<>> => block.characterList = <<>>

C2_Witness ==
  /\ Returned
  /\ Len(result) = 2
  /\ textBlocks[1] = <<"a", "\r", "b">>
  /\ Len(result[1].characterList) = 2
  /\ textBlocks[2] = <<"\r", "\r">>
  /\ result[2].characterList = <<>>
  /\ character = "BOLD"

\* C3: with tree data support, the returned blocks are a doubly linked sibling
\* chain in array order: each block's prevSibling is the key before it and each
\* block's nextSibling the key after it, the first has no prevSibling, the last
\* no nextSibling, and every link names the key of a returned block.
C3_SiblingChain ==
  (Returned /\ experimentalTreeDataSupport) =>
    LET n == Len(result)
        keysOf == {result[i].key : i \in 1..n}
    IN /\ \A i \in 2..n :
            /\ result[i].prevSibling = result[i - 1].key
            /\ result[i - 1].nextSibling = result[i].key
       /\ n > 0 => (result[1].prevSibling = Null /\ result[n].nextSibling = Null)
       /\ \A i \in 1..n :
            /\ result[i].prevSibling # Null => result[i].prevSibling \in keysOf
            /\ result[i].nextSibling # Null => result[i].nextSibling \in keysOf

C3_Witness ==
  /\ Returned
  /\ experimentalTreeDataSupport
  /\ Len(result) = 3
  /\ result[2].prevSibling = result[1].key
  /\ result[2].nextSibling = result[3].key

Mounted == pc = "componentDidMount"

\* The block lies inside the visible area of its scroll parent.
BlockWithinVisibleArea(d) == BlockTop(d) >= VisTop(d) /\ BlockBottom(d) <= VisBottom(d)

\* C4: when the mounted block overlaps the selection (its key is the anchor key
\* or the focus key), componentDidMount forces the scroll position whenever the
\* block is not within the visible area of its scroll parent.
C4_ScrollsWhenOnSelectionEdge ==
  (/\ Mounted
   /\ isBlockOnSelectionEdge(props.selection, getKey(props.block))
   /\ ~BlockWithinVisibleArea(dom))
    => scrollCall # NoCall

Updated == pc = "shouldComponentUpdate"

\* C5: shouldComponentUpdate returns true if and only if block, tree or
\* direction differs between this.props and nextProps, or nextProps.forceSelection
\* is set and the key of nextProps.block is the next selection's anchor or focus
\* key; a change of selection alone, without forceSelection, gives false.
C5_UpdateIff ==
  Updated =>
    /\ shouldUpdate <=>
         \/ props.block # nextProps.block
         \/ props.tree # nextProps.tree
         \/ props.direction # nextProps.direction
         \/ /\ nextProps.forceSelection
            /\ \/ getKey(nextProps.block) = nextProps.selection.anchorKey
               \/ getKey(nextProps.block) = nextProps.selection.focusKey
    /\ (/\ ~nextProps.forceSelection
        /\ props.block = nextProps.block
        /\ props.tree = nextProps.tree
        /\ props.direction = nextProps.direction) => ~shouldUpdate

C5_Witness ==
  /\ Updated
  /\ props.selection # nextProps.selection
  /\ props.forceSelection
  /\ ~nextProps.forceSelection
  /\ props.block = nextProps.block
  /\ props.tree = nextProps.tree
  /\ props.direction = nextProps.direction
  /\ isBlockOnSelectionEdge(nextProps.selection, getKey(nextProps.block))
  /\ ~shouldUpdate

\* The guard of componentDidMount: the selection has focus and ends in the block.
GuardPasses == props.selection.hasFocus /\ getEndKey(props.selection) = getKey(props.block)

\* The top a scroll call sets.
ScrollTopOf(call) == call.args[Len(call.args)]

TopAligned(d) == d.scrollPosition.y + (BlockTop(d) - VisTop(d)) - SCROLL_BUFFER
BottomAligned(d) == d.scrollPosition.y + (BlockBottom(d) - VisBottom(d)) + SCROLL_BUFFER

====
